---- MODULE Spec2Model ----
(***************************************************************************)
(* Model of the product-review ingestion pipeline                          *)
(* (src/data_ingestion/ingestion_pipeline.py, src/config/config_loader.py).*)
(*                                                                         *)
(* One run of the CLI entry point: DataIngestion() followed by             *)
(* run_pipeline().  The environment (process environment variables, the    *)
(* CSV file, config/config.yaml) is fixed by Init; the vector store        *)
(* answers each request nondeterministically.  An uncaught Python          *)
(* exception ends the run: it is appended to `errors` and no further       *)
(* step is taken.                                                          *)
(***************************************************************************)
EXTENDS Integers, Sequences, FiniteSets, TLC

\* ------------------------------------------------------------------ bounds

\* Largest number of data rows in the CSV file.
MaxRows == 2

\* ------------------------------------------------- constants of the program

\* The value of os.getenv(var) for a variable that is not set, and of an
\* attribute that was never assigned.
None == "<None>"

\* ingestion_pipeline.py:48
required_vars ==
    <<"GOOGLE_API_KEY", "ASTRA_DB_API_ENDPOINT", "ASTRA_DB_APPLICATION_TOKEN", "ASTRA_DB_KEYSPACE">>

\* ingestion_pipeline.py:83
expected_columns == {"product_title", "rating", "summary", "review"}

\* ingestion_pipeline.py:153
query == "Can you tell me the low budget headphone?"

\* ingestion_pipeline.py:69
csv_file == "data/flipkart_product_review.csv"

\* config_loader.py:3
config_path == "config/config.yaml"

\* ingestion_pipeline.py:128 (the nested key read from the configuration)
collection_key == "astra_db.collection_name"

\* ------------------------------------------------------------- environment

Range(s) == {s[i] : i \in DOMAIN s}

RequiredVarSet == Range(required_vars)

\* Columns a CSV file may have: the required ones and one the pipeline ignores.
AllColumns == expected_columns \cup {"price"}

\* Headers of an existing CSV file (a parsed table has at least one column).
Headers == (SUBSET AllColumns) \ {{}}

\* Cell values per column; a review may be empty.
CellValues(c) ==
    CASE c = "product_title" -> {"Headphone A", "Headphone B"}
      [] c = "rating"        -> {4}
      [] c = "summary"       -> {"Good bass"}
      [] c = "review"        -> {"", "Great sound for the price"}
      [] OTHER               -> {999}

EmptyRow == [c \in {} |-> 0]

\* All rows over a column set: one cell per column.
RECURSIVE RowsOver(_)
RowsOver(cols) ==
    IF cols = {} THEN {EmptyRow}
    ELSE LET c == CHOOSE x \in cols : TRUE
         IN  {(c :> v) @@ r : v \in CellValues(c), r \in RowsOver(cols \ {c})}

RECURSIVE SeqsUpTo(_, _)
SeqsUpTo(S, n) ==
    IF n = 0 THEN {<<>>}
    ELSE LET shorter == SeqsUpTo(S, n - 1)
         IN  shorter \cup {Append(s, x) : s \in {t \in shorter : Len(t) = n - 1}, x \in S}

\* The keys config.yaml may define (src/test.py:8-10 reads all three).
ConfigKeys == {collection_key, "embedding_model.model_name"}

\* config/config.yaml: absent, not valid YAML, or a mapping defining `keys`.
ConfigFiles ==
    {[status |-> "missing", keys |-> {}], [status |-> "unparsable", keys |-> {}]}
        \cup {[status |-> "ok", keys |-> K] : K \in SUBSET ConfigKeys}

\* ------------------------------------------------------------------- state

VARIABLES
    environ,        \* os.environ after load_dotenv: var -> value or None
    csv_exists,     \* os.path.exists(csv_path)
    csv_columns,    \* header of the CSV file
    csv_rows,       \* data rows of the CSV file
    config_file,    \* state of config/config.yaml
    pc,             \* position of the run
    errors,         \* uncaught exceptions raised (the first one ends the run)
    credentials,    \* self.google_api_key, self.db_api_endpoint, ...
    csv_path,       \* self.csv_path
    product_data,   \* self.product_data (the DataFrame)
    config,         \* self.config
    documents,      \* run_pipeline's `documents`
    inserted_ids,   \* run_pipeline's `inserted_ids`
    output,         \* what the run printed
    store_calls,    \* requests issued to the vector store, with their outcome
    results,        \* run_pipeline's `results`
    collection,     \* documents held by the store's collection
    steps           \* history: the constructor's checks that were executed

vars == <<environ, csv_exists, csv_columns, csv_rows, config_file, pc, errors,
          credentials, csv_path, product_data, config, documents, inserted_ids,
          output, store_calls, results, collection, steps>>

envVars == <<environ, csv_exists, csv_columns, csv_rows, config_file>>

\* Attributes _load_env_variables assigns, with the variable each is read from
\* (ingestion_pipeline.py:56-59).
credential_attrs ==
    [google_api_key       |-> "GOOGLE_API_KEY",
     db_api_endpoint      |-> "ASTRA_DB_API_ENDPOINT",
     db_application_token |-> "ASTRA_DB_APPLICATION_TOKEN",
     db_keyspace          |-> "ASTRA_DB_KEYSPACE"]

NoData == [loaded |-> FALSE, columns |-> {}, rows |-> <<>>]

NoConfig == [loaded |-> FALSE, keys |-> {}]

Exception(kind, vars_, columns_, path_) ==
    [kind |-> kind, vars |-> vars_, columns |-> columns_, path |-> path_]

Init ==
    /\ environ \in [RequiredVarSet -> {None, "secret"}]
    /\ csv_exists \in BOOLEAN
    /\ csv_columns \in (IF csv_exists THEN Headers ELSE {{}})
    /\ csv_rows \in (IF csv_exists THEN SeqsUpTo(RowsOver(csv_columns), MaxRows) ELSE {<<>>})
    /\ config_file \in ConfigFiles
    /\ pc = "start"
    /\ errors = <<>>
    /\ credentials = [a \in DOMAIN credential_attrs |-> None]
    /\ csv_path = None
    /\ product_data = NoData
    /\ config = NoConfig
    /\ documents = <<>>
    /\ inserted_ids = <<>>
    /\ output = <<>>
    /\ store_calls = <<>>
    /\ results = <<>>
    /\ collection = <<>>
    /\ steps = <<>>

Running == errors = <<>>

\* ------------------------------------------------------------ control flow

\* Variant: the configuration is loaded before the CSV file is read.
init_order_configBeforeCsv ==
    <<"model_loader", "load_env_variables", "get_csv_path", "load_config", "load_csv">>

\* DataIngestion.__init__: the order of its calls.
init_order ==
    <<"model_loader", "load_env_variables", "get_csv_path", "load_csv", "load_config">>

\* Variant: the store is written before the rows are transformed.
run_order_storeFirst ==
    <<"store_in_vector_db", "transform_data", "similarity_search", "print_results">>

\* DataIngestion.run_pipeline: the order of its calls.
run_order ==
    <<"transform_data", "store_in_vector_db", "similarity_search", "print_results">>

\* The CLI entry point: construct, then run.
program == init_order \o run_order

IndexOf(step) == CHOOSE i \in DOMAIN program : program[i] = step

\* A step is entered when the run is alive and stands right after the step
\* that precedes it in the program.
At(step) ==
    /\ Running
    /\ pc = (IF IndexOf(step) = 1 THEN "start" ELSE program[IndexOf(step) - 1])

Raise(e) == errors' = Append(errors, e)

\* ------------------------------------------------------------- constructor

\* self.model_loader = ModelLoader(): the embedding capability is created;
\* it holds no state of the pipeline.
ModelLoaderInit ==
    /\ At("model_loader")
    /\ pc' = "model_loader"
    /\ steps' = Append(steps, "model_loader")
    /\ UNCHANGED <<envVars, errors, credentials, csv_path, product_data, config,
                   documents, inserted_ids, output, store_calls, results, collection>>

IsMissing(env, var) == env[var] = None

\* missing_vars = [var for var in required_vars if os.getenv(var) is None]
RECURSIVE missing_from(_, _)
missing_from(env, i) ==
    IF i > Len(required_vars) THEN <<>>
    ELSE IF IsMissing(env, required_vars[i])
         THEN <<required_vars[i]>> \o missing_from(env, i + 1)
         ELSE missing_from(env, i + 1)

\* Variant: the scan stops at the first missing variable.
missing_vars_firstOnly(env) ==
    IF missing_from(env, 1) = <<>> THEN <<>> ELSE <<Head(missing_from(env, 1))>>

missing_vars(env) == missing_from(env, 1)

LoadEnvVariables ==
    /\ At("load_env_variables")
    /\ pc' = "load_env_variables"
    /\ steps' = Append(steps, "load_env_variables")
    /\ IF missing_vars(environ) # <<>>
       THEN /\ Raise(Exception("EnvironmentError", missing_vars(environ), {}, None))
            /\ UNCHANGED credentials
       ELSE /\ credentials' = [a \in DOMAIN credential_attrs |-> environ[credential_attrs[a]]]
            /\ UNCHANGED errors
    /\ UNCHANGED <<envVars, csv_path, product_data, config, documents, inserted_ids,
                   output, store_calls, results, collection>>

\* Variant: the path is returned without the existence check.
GetCsvPath_noCheck ==
    /\ At("get_csv_path")
    /\ pc' = "get_csv_path"
    /\ steps' = Append(steps, "get_csv_path")
    /\ csv_path' = csv_file
    /\ UNCHANGED <<envVars, errors, credentials, product_data, config, documents,
                   inserted_ids, output, store_calls, results, collection>>

GetCsvPath ==
    /\ At("get_csv_path")
    /\ pc' = "get_csv_path"
    /\ steps' = Append(steps, "get_csv_path")
    /\ IF ~csv_exists
       THEN /\ Raise(Exception("FileNotFoundError", <<>>, {}, csv_file))
            /\ UNCHANGED csv_path
       ELSE /\ csv_path' = csv_file
            /\ UNCHANGED errors
    /\ UNCHANGED <<envVars, credentials, product_data, config, documents, inserted_ids,
                   output, store_calls, results, collection>>

\* Variant: the schema error names only the columns that are absent.
schema_error_columns_missingOnly(df_columns) == expected_columns \ df_columns

\* The columns the schema error of _load_csv names.
schema_error_columns(df_columns) == expected_columns

LoadCsv ==
    /\ At("load_csv")
    /\ pc' = "load_csv"
    /\ steps' = Append(steps, "load_csv")
    /\ IF ~csv_exists
       THEN \* pd.read_csv of a path that does not exist
            /\ Raise(Exception("FileNotFoundError", <<>>, {}, csv_file))
            /\ UNCHANGED product_data
       ELSE LET df == [loaded |-> TRUE, columns |-> csv_columns, rows |-> csv_rows]
            IN  IF ~(expected_columns \subseteq df.columns)
                THEN /\ Raise(Exception("ValueError", <<>>,
                                        schema_error_columns(df.columns), None))
                     /\ UNCHANGED product_data
                ELSE /\ product_data' = df
                     /\ UNCHANGED errors
    /\ UNCHANGED <<envVars, credentials, csv_path, config, documents, inserted_ids,
                   output, store_calls, results, collection>>

\* load_config(): open() fails on a missing file, yaml.safe_load on bad YAML.
LoadConfig ==
    /\ At("load_config")
    /\ pc' = "load_config"
    /\ steps' = Append(steps, "load_config")
    /\ CASE config_file.status = "missing" ->
              /\ Raise(Exception("FileNotFoundError", <<>>, {}, config_path))
              /\ UNCHANGED config
         [] config_file.status = "unparsable" ->
              /\ Raise(Exception("YAMLError", <<>>, {}, config_path))
              /\ UNCHANGED config
         [] OTHER ->
              /\ config' = [loaded |-> TRUE, keys |-> config_file.keys]
              /\ UNCHANGED errors
    /\ UNCHANGED <<envVars, credentials, csv_path, product_data, documents, inserted_ids,
                   output, store_calls, results, collection>>

\* ------------------------------------------------------------ run_pipeline

\* transform_data, first loop: one dictionary per row of the DataFrame.
product_entry(row) ==
    [product_name    |-> row["product_title"],
     product_rating  |-> row["rating"],
     product_summary |-> row["summary"],
     product_review  |-> row["review"]]

RECURSIVE product_list(_)
product_list(rows) ==
    IF rows = <<>> THEN <<>>
    ELSE <<product_entry(Head(rows))>> \o product_list(Tail(rows))

\* transform_data, second loop: one Document per dictionary.
Document(entry) ==
    [page_content |-> entry.product_review,
     metadata     |-> [product_name    |-> entry.product_name,
                       product_rating  |-> entry.product_rating,
                       product_summary |-> entry.product_summary]]

RECURSIVE documents_of(_)
documents_of(entries) ==
    IF entries = <<>> THEN <<>>
    ELSE <<Document(Head(entries))>> \o documents_of(Tail(entries))

HasReview(row) == row["review"] # ""

\* Variant: rows whose review is empty yield no Document.
transform_data_skipsEmptyReview(df) ==
    documents_of(product_list(SelectSeq(df.rows, HasReview)))

transform_data(df) == documents_of(product_list(df.rows))

Printed(msg, count) == [msg |-> msg, count |-> count]

TransformData ==
    /\ At("transform_data")
    /\ pc' = "transform_data"
    /\ documents' = transform_data(product_data)
    /\ output' = Append(output, Printed("Transformed", Len(documents')))
    /\ UNCHANGED <<envVars, errors, credentials, csv_path, product_data, config,
                   inserted_ids, store_calls, results, collection, steps>>

StoreCall(op, docs, raised, returned) ==
    [op |-> op, docs |-> docs, raised |-> raised, returned |-> returned]

\* Variant: the count printed is the number of documents submitted.
inserted_count_submitted(ids, docs) == Len(docs)

\* The count store_in_vector_db prints after the write.
inserted_count(ids, docs) == Len(ids)

\* Variant: the collection name is looked up only after the batch was sent.
StoreLookupFails_afterWrite ==
    /\ Raise(Exception("KeyError", <<>>, {}, collection_key))
    /\ store_calls' = Append(store_calls, StoreCall("add_documents", documents, FALSE,
                                                    Len(documents)))
    /\ collection' = collection \o documents
    /\ UNCHANGED <<inserted_ids, output>>

\* store_in_vector_db, line 128: config["astra_db"]["collection_name"] is
\* read before anything is sent to the store.
StoreLookupFails ==
    /\ Raise(Exception("KeyError", <<>>, {}, collection_key))
    /\ UNCHANGED <<inserted_ids, output, store_calls, collection>>

\* store_in_vector_db, lines 131-137: AstraDBVectorStore(...) raises.
StoreConnectFails ==
    /\ Raise(Exception("StoreError", <<>>, {}, "AstraDBVectorStore"))
    /\ UNCHANGED <<inserted_ids, output, store_calls, collection>>

\* Variant: a failed write is issued a second time before the run gives up.
StorePersistFails_retried ==
    /\ Raise(Exception("StoreError", <<>>, {}, "add_documents"))
    /\ store_calls' = store_calls \o <<StoreCall("add_documents", documents, TRUE, 0),
                                       StoreCall("add_documents", documents, TRUE, 0)>>
    /\ UNCHANGED <<inserted_ids, output, collection>>

\* store_in_vector_db, line 139: vstore.add_documents(documents) raises; the
\* exception is not caught and the call is not repeated.
StorePersistFails ==
    /\ Raise(Exception("StoreError", <<>>, {}, "add_documents"))
    /\ store_calls' = Append(store_calls, StoreCall("add_documents", documents, TRUE, 0))
    /\ UNCHANGED <<inserted_ids, output, collection>>

\* store_in_vector_db, lines 139-141: vstore.add_documents(documents) returns
\* k identifiers; the pipeline does not constrain k.
StorePersistReturns(k) ==
    /\ inserted_ids' = [i \in 1 .. k |-> i]
    /\ store_calls' = Append(store_calls, StoreCall("add_documents", documents, FALSE, k))
    /\ collection' = collection \o documents
    /\ output' = Append(output, Printed("Successfully inserted",
                                        inserted_count(inserted_ids', documents)))
    /\ UNCHANGED errors

StoreInVectorDb ==
    /\ At("store_in_vector_db")
    /\ pc' = "store_in_vector_db"
    /\ IF ~config.loaded \/ collection_key \notin config.keys
       THEN StoreLookupFails
       ELSE \/ StoreConnectFails
            \/ StorePersistFails
            \/ \E k \in 0 .. Len(documents) + 1 : StorePersistReturns(k)
    /\ UNCHANGED <<envVars, credentials, csv_path, product_data, config, documents,
                   results, steps>>

\* Variant: a failed verification query is caught and the run goes on with no
\* results.
SearchFails_swallowed ==
    /\ results' = <<>>
    /\ store_calls' = Append(store_calls, StoreCall("similarity_search", <<>>, TRUE, 0))
    /\ UNCHANGED errors

\* run_pipeline, line 154: vstore.similarity_search(query) raises; nothing
\* catches the exception.
SearchFails ==
    /\ Raise(Exception("StoreError", <<>>, {}, "similarity_search"))
    /\ store_calls' = Append(store_calls, StoreCall("similarity_search", <<>>, TRUE, 0))
    /\ UNCHANGED results

\* results = vstore.similarity_search(query): raises, or returns some of the
\* collection's documents.
SimilaritySearch ==
    /\ At("similarity_search")
    /\ pc' = "similarity_search"
    /\ \/ SearchFails
       \/ \E k \in 0 .. Len(collection) :
             /\ results' = SubSeq(collection, 1, k)
             /\ store_calls' = Append(store_calls,
                                      StoreCall("similarity_search", <<>>, FALSE, k))
             /\ UNCHANGED errors
    /\ UNCHANGED <<envVars, credentials, csv_path, product_data, config, documents,
                   inserted_ids, output, collection, steps>>

\* The sample results are printed and run_pipeline returns.
PrintResults ==
    /\ At("print_results")
    /\ pc' = "print_results"
    /\ output' = Append(output, Printed("Sample search results", Len(results)))
    /\ UNCHANGED <<envVars, errors, credentials, csv_path, product_data, config,
                   documents, inserted_ids, store_calls, results, collection, steps>>

Next ==
    \/ ModelLoaderInit
    \/ LoadEnvVariables
    \/ GetCsvPath
    \/ LoadCsv
    \/ LoadConfig
    \/ TransformData
    \/ StoreInVectorDb
    \/ SimilaritySearch
    \/ PrintResults

Spec == Init /\ [][Next]_vars

\* The run ended normally: run_pipeline returned.
Done == Running /\ pc = "print_results"

\* The run was ended by an uncaught exception.
Failed == errors # <<>>

\* ------------------------------------------------------------- observations

\* Number of program steps entered so far.
Pos == IF pc = "start" THEN 0 ELSE IndexOf(pc)

\* The step was entered (it completed or raised).
Entered(step) == Pos >= IndexOf(step)

Calls(op) == SelectSeq(store_calls, LAMBDA c : c.op = op)

WriteCalls == Calls("add_documents")

SearchCalls == Calls("similarity_search")

PrintedCounts(msg) == {output[i].count : i \in {j \in DOMAIN output : output[j].msg = msg}}

MissingCredentials == {v \in RequiredVarSet : environ[v] = None}

MissingColumns == expected_columns \ csv_columns

WriteRaised == \E i \in DOMAIN store_calls :
                  store_calls[i].op = "add_documents" /\ store_calls[i].raised

WriteReturned == \E i \in DOMAIN store_calls :
                    store_calls[i].op = "add_documents" /\ ~store_calls[i].raised

SearchRaised == \E i \in DOMAIN store_calls :
                   store_calls[i].op = "similarity_search" /\ store_calls[i].raised

SearchReturned == \E i \in DOMAIN store_calls :
                     store_calls[i].op = "similarity_search" /\ ~store_calls[i].raised

\* ------------------------------------------------------------------ claims

C2_CountMismatchIsFatal ==
    /\ Done => PrintedCounts("Successfully inserted") = {Len(product_data.rows)}
    /\ \A i \in DOMAIN store_calls :
          (/\ store_calls[i].op = "add_documents"
           /\ ~store_calls[i].raised
           /\ store_calls[i].returned # Len(store_calls[i].docs))
          => (Failed /\ errors[1].kind = "ConsistencyError")

\* C2 (amended): after a write that returned, the inserted count printed is
\* the number of identifiers the store returned, whatever the number of rows;
\* the returned count by itself raises nothing, and a run that ends normally
\* has printed exactly that count.
C2_ReportsReturnedCount ==
    /\ WriteReturned =>
          /\ PrintedCounts("Successfully inserted") = {WriteCalls[1].returned}
          /\ Len(inserted_ids) = WriteCalls[1].returned
          /\ pc = "store_in_vector_db" => Running
    /\ Done => WriteReturned

C2_Witness ==
    /\ Done
    /\ Len(documents) >= 1
    /\ WriteCalls[1].returned # Len(documents)
    /\ PrintedCounts("Successfully inserted") = {WriteCalls[1].returned}

\* C3 (as stated): when the write succeeded and the verification query
\* raises, the run is not ended by that failure.
C3_SearchFailureIsNotFatal ==
    (WriteReturned /\ SearchRaised) => ~Failed

\* C3 (amended): when the write succeeded and the verification query raises,
\* the exception ends the run: no sample results are printed and the run does
\* not end normally; the inserted count was printed before, and the written
\* documents stay in the collection.
C3_SearchFailureIsFatal ==
    (WriteReturned /\ SearchRaised) =>
        /\ Failed
        /\ Len(errors) = 1
        /\ errors[1].kind = "StoreError"
        /\ errors[1].path = "similarity_search"
        /\ pc = "similarity_search"
        /\ PrintedCounts("Sample search results") = {}
        /\ PrintedCounts("Successfully inserted") # {}
        /\ collection = documents

C3_Witness ==
    /\ WriteReturned
    /\ SearchRaised
    /\ Failed
    /\ Len(collection) >= 1

\* C4 (as stated): when the file lacks a non-empty set M of required columns,
\* loading fails with a schema error that names exactly M, and nothing is
\* loaded.
C4_SchemaErrorNamesMissing ==
    (Entered("load_csv") /\ MissingColumns # {}) =>
        /\ Len(errors) = 1
        /\ errors[1].kind = "ValueError"
        /\ errors[1].columns = MissingColumns
        /\ product_data = NoData

\* C4 (amended): when the file lacks a non-empty set M of required columns,
\* loading fails with a schema error that names the four required columns,
\* whatever M is, and nothing is loaded.
C4_SchemaErrorNamesRequired ==
    (Entered("load_csv") /\ MissingColumns # {}) =>
        /\ Len(errors) = 1
        /\ errors[1].kind = "ValueError"
        /\ errors[1].columns = {"product_title", "rating", "summary", "review"}
        /\ pc = "load_csv"
        /\ product_data = NoData

C4_Witness ==
    /\ Failed
    /\ errors[1].kind = "ValueError"
    /\ MissingColumns = {"review"}
    /\ "price" \in csv_columns
    /\ Len(csv_rows) >= 1

\* C5: once _load_env_variables has run with a non-empty set S of required
\* variables unset, exactly one error was raised, it lists every name of S
\* and nothing else, and no credential attribute is set; with S empty it
\* raised nothing and all four attributes hold the variables' values.
C5_CredentialErrorListsAllMissing ==
    Entered("load_env_variables") =>
        IF MissingCredentials # {}
        THEN /\ Len(errors) = 1
             /\ errors[1].kind = "EnvironmentError"
             /\ Range(errors[1].vars) = MissingCredentials
             /\ Len(errors[1].vars) = Cardinality(MissingCredentials)
             /\ \A a \in DOMAIN credentials : credentials[a] = None
        ELSE /\ \A i \in DOMAIN errors : errors[i].kind # "EnvironmentError"
             /\ pc = "load_env_variables" => Running
             /\ \A a \in DOMAIN credentials :
                   credentials[a] # None /\ credentials[a] = environ[credential_attrs[a]]

C5_Witness ==
    /\ Failed
    /\ errors[1].kind = "EnvironmentError"
    /\ MissingCredentials = {"ASTRA_DB_API_ENDPOINT", "ASTRA_DB_KEYSPACE"}

\* An error of configuration (file missing, not parsable, or the collection
\* name absent), of credentials or of schema.
IsFailFastError(e) ==
    \/ e.kind \in {"EnvironmentError", "ValueError", "YAMLError", "KeyError"}
    \/ e.kind = "FileNotFoundError" /\ e.path = config_path

\* C6: in every state in which a configuration, credential or schema error
\* was raised, no request was ever sent to the store and its collection is
\* untouched.
C6_FailFastBeforeAnyWrite ==
    (\E i \in DOMAIN errors : IsFailFastError(errors[i])) =>
        /\ store_calls = <<>>
        /\ collection = <<>>

C6_Witness ==
    /\ Failed
    /\ errors[1].kind = "KeyError"
    /\ pc = "store_in_vector_db"
    /\ Len(documents) >= 1

\* What "no further pipeline step" means after the path check.
NothingAfterPathCheck ==
    /\ Pos <= IndexOf("get_csv_path")
    /\ \A i \in DOMAIN steps : steps[i] \notin {"load_csv", "load_config"}
    /\ product_data = NoData
    /\ config = NoConfig
    /\ documents = <<>>
    /\ output = <<>>
    /\ store_calls = <<>>

\* C7 (as stated): when the input file does not exist, a run that fails fails
\* with the source-not-found error, and nothing after the path check happens.
C7_MissingFileIsSourceNotFound ==
    ~csv_exists =>
        /\ NothingAfterPathCheck
        /\ Failed => (errors[1].kind = "FileNotFoundError" /\ errors[1].path = csv_file)

\* C7 (amended): when the input file does not exist, nothing after the path
\* check happens; the error is the source-not-found error when all four
\* credentials are present (otherwise the credential error was raised first).
C7_MissingFileStopsTheRun ==
    ~csv_exists =>
        /\ NothingAfterPathCheck
        /\ (MissingCredentials = {} /\ Entered("get_csv_path")) =>
              /\ Len(errors) = 1
              /\ errors[1].kind = "FileNotFoundError"
              /\ errors[1].path = csv_file
              /\ csv_path = None
        /\ (MissingCredentials # {} /\ Failed) => errors[1].kind = "EnvironmentError"

C7_Witness ==
    /\ ~csv_exists
    /\ Failed
    /\ errors[1].kind = "FileNotFoundError"
    /\ config_file.status = "ok"
    /\ pc = "get_csv_path"

\* C8: when the store's write raises, the run ends there: exactly one write
\* request was issued, no verification query, no inserted count and no sample
\* results were printed, and the run did not end normally.
C8_PersistFailureAborts ==
    WriteRaised =>
        /\ Failed
        /\ Len(errors) = 1
        /\ errors[1].kind = "StoreError"
        /\ errors[1].path = "add_documents"
        /\ pc = "store_in_vector_db"
        /\ Len(store_calls) = 1
        /\ SearchCalls = <<>>
        /\ inserted_ids = <<>>
        /\ PrintedCounts("Successfully inserted") = {}
        /\ PrintedCounts("Sample search results") = {}
        /\ ~Done

C8_Witness ==
    /\ WriteRaised
    /\ Failed
    /\ Len(documents) >= 1

\* The states of the run, read from what it has done.
IsLoaded == product_data.loaded

IsTransformed == PrintedCounts("Transformed") # {}

IsStored == WriteReturned

IsVerified == SearchReturned

IsDone == PrintedCounts("Sample search results") # {}

\* 0 INIT, 1 LOADED, 2 TRANSFORMED, 3 STORED, 4 VERIFIED, 5 DONE
Phase ==
    Cardinality({b \in {<<1, IsLoaded>>, <<2, IsTransformed>>, <<3, IsStored>>,
                        <<4, IsVerified>>, <<5, IsDone>>} : b[2]})

C9_Shape ==
    /\ IsDone => IsVerified
    /\ IsVerified => IsStored
    /\ IsStored => IsTransformed
    /\ IsTransformed => IsLoaded
    /\ Len(store_calls) <= 2
    /\ Len(WriteCalls) <= 1
    /\ Len(SearchCalls) <= 1
    /\ Len(store_calls) >= 1 =>
          /\ store_calls[1].op = "add_documents"
          /\ store_calls[1].docs = documents
          /\ Len(documents) = Len(product_data.rows)
    /\ Len(store_calls) = 2 =>
          /\ ~store_calls[1].raised
          /\ store_calls[2].op = "similarity_search"

C9_Advance ==
    /\ Phase' \in {Phase, Phase + 1}
    /\ Len(store_calls') \in {Len(store_calls), Len(store_calls) + 1}
    /\ SubSeq(store_calls', 1, Len(store_calls)) = store_calls

\* C9: the run passes INIT, LOADED, TRANSFORMED, STORED, VERIFIED, DONE in
\* that order, one state at a time, never going back; the store receives at
\* most one write, carrying all the transformed documents, then at most one
\* query, and no request is issued twice.
C9_LinearRun == [](C9_Shape) /\ [][C9_Advance]_vars

C9_Witness ==
    /\ Done
    /\ Phase = 5
    /\ Len(store_calls) = 2
    /\ Len(store_calls[1].docs) >= 2

\* The checks of the constructor, in the order the claim gives them.
CheckOrder == <<"load_env_variables", "get_csv_path", "load_csv", "load_config">>

CheckViolated(check) ==
    CASE check = "load_env_variables" -> MissingCredentials # {}
      [] check = "get_csv_path"       -> ~csv_exists
      [] check = "load_csv"           -> ~(expected_columns \subseteq csv_columns)
      [] OTHER                        -> config_file.status # "ok"

CheckErrorKinds(check) ==
    CASE check = "load_env_variables" -> {"EnvironmentError"}
      [] check = "get_csv_path"       -> {"FileNotFoundError"}
      [] check = "load_csv"           -> {"ValueError"}
      [] OTHER                        -> {"FileNotFoundError", "YAMLError"}

ChecksDone == SelectSeq(steps, LAMBDA st : st # "model_loader")

\* C10: the constructor's checks run in the order credentials, file
\* existence, required columns, configuration; the checks executed are a
\* prefix of that order that ends at the first violated one, and the error
\* raised during construction is the error of that first violated check.
C10_FirstViolatedCheckWins ==
    /\ Len(ChecksDone) <= Len(CheckOrder)
    /\ ChecksDone = SubSeq(CheckOrder, 1, Len(ChecksDone))
    /\ \A i \in DOMAIN CheckOrder :
          CheckViolated(CheckOrder[i]) => Len(ChecksDone) <= i
    /\ \A i \in DOMAIN CheckOrder :
          (/\ CheckViolated(CheckOrder[i])
           /\ \A j \in 1 .. i - 1 : ~CheckViolated(CheckOrder[j])
           /\ Len(ChecksDone) = i)
          => /\ Len(errors) = 1
             /\ errors[1].kind \in CheckErrorKinds(CheckOrder[i])
             /\ pc = CheckOrder[i]

C10_Witness ==
    /\ Failed
    /\ errors[1].kind = "ValueError"
    /\ config_file.status = "missing"
    /\ Len(csv_rows) >= 1
    /\ ChecksDone = <<"load_env_variables", "get_csv_path", "load_csv">>
====
